---- MODULE Spec2Model ----
(***************************************************************************)
(* Express API over two MySQL tables (users, articles) with JWT bearer     *)
(* authentication: src/index.ts mounts routes/users.ts on /users,          *)
(* routes/auth.ts on /auth and routes/articles.ts on /articles.            *)
(*                                                                         *)
(* One action per route.  An action runs the route's whole middleware      *)
(* chain and handler on one request and records the request and the        *)
(* response that was sent.                                                 *)
(*                                                                         *)
(* database.ts, middleware/auth-validation.ts, middleware/user-validation  *)
(* and utils/jwt.ts are not among the source files; the table constraints  *)
(* and those middlewares are modelled from the specification (sections     *)
(* 3, 4.2, 4.3, 4.4 and 5).                                                *)
(***************************************************************************)
EXTENDS Integers, Sequences, FiniteSets, TLC

VARIABLES
    users,          \* table users: id -> row
    nextUserId,     \* AUTO_INCREMENT counter of users
    articles,       \* table articles: id -> row
    nextArticleId,  \* AUTO_INCREMENT counter of articles
    now,            \* wall clock, in token lifetimes' units
    issued,         \* tokens signed so far by generateToken
    deleted204,     \* history: ids whose DELETE was answered 204
    req,            \* the last request handled
    res,            \* the response sent to it
    up,             \* the pool reaches the database
    inflight        \* handlers suspended at an await between two statements

vars == <<users, nextUserId, articles, nextArticleId, now, issued, deleted204, req, res,
          up, inflight>>

----------------------------------------------------------------------------
(* Bounds *)

MaxUsers == 2
MaxArticles == 1
MaxTime == 1
MaxTokens == 1
MaxInflight == 2

(* Lifetime of a token, in clock ticks. *)
TokenTTL == 1

(* Request values.  A body field is a string, the empty string, or absent. *)
(* Nothing keeps a username from being spelled like an email address.     *)
Undefined == "<undefined>"
Usernames == {"ann", "bob@x.io"}
Emails == {"bob@x.io", "ann@x.io"}
Passwords == {"p", "q"}
Salts == {"s1"}
Texts == {"t"}

(* Number("abc") *)
NaN == -1

UserIds == 1..MaxUsers
PathIds == {ToString(i) : i \in UserIds} \cup {"abc"}

(* if (x): a JavaScript string is truthy unless empty; undefined is falsy *)
Truthy(v) == v # Undefined /\ v # ""

(* Number(req.params.id) *)
Number(p) == IF \E i \in UserIds : ToString(i) = p
             THEN CHOOSE i \in UserIds : ToString(i) = p
             ELSE NaN

----------------------------------------------------------------------------
(* Responses: res.status(s).json(v), res.json(v), res.status(204).send() *)

Obj(r) == [t |-> "obj", v |-> r]
Arr(s) == [t |-> "arr", v |-> s]
NoBody == [t |-> "none", v |-> <<>>]

Reply(status, json) == [status |-> status, json |-> json]

NoRequest == [op |-> "none"]

----------------------------------------------------------------------------
(* bcrypt *)

bcryptHash(password, salt) == [alg |-> "bcrypt", salt |-> salt, of |-> password]

bcryptCompare(password, hashed) == hashed.of = password

----------------------------------------------------------------------------
(* The store, as the SQL statements of the routes use it. *)

DB == [users |-> users, nextUserId |-> nextUserId,
       articles |-> articles, nextArticleId |-> nextArticleId, up |-> up]

(* Mutant: only the email column is unique. *)
DuplicateEntry_EmailOnly(db, id, username, email) ==
    \E j \in DOMAIN db.users : j # id /\ db.users[j].email = email

(* UNIQUE(username), UNIQUE(email) on users *)
DuplicateEntry(db, id, username, email) ==
    \E j \in DOMAIN db.users :
        /\ j # id
        /\ \/ db.users[j].username = username
           \/ db.users[j].email = email

(* FOREIGN KEY articles.submitted_by REFERENCES users(id), not cascading *)
Referenced(db, id) == \E a \in DOMAIN db.articles : db.articles[a].submitted_by = id

(* SELECT * FROM users WHERE email = ? OR username = ?   [p1, p2] *)
SelectByEmailOrUsername(db, p1, p2) ==
    {i \in DOMAIN db.users : db.users[i].email = p1 \/ db.users[i].username = p2}

(* SELECT id, username, email, password FROM users WHERE email = ? *)
SelectByEmail(db, email) == {i \in DOMAIN db.users : db.users[i].email = email}

(* Mutant: neither column of users is unique. *)
InsertUser_NoUniqueKeys(db, username, email, hashed) ==
    IF ~db.up THEN [err |-> TRUE, insertId |-> 0, db |-> db] ELSE
    [err |-> FALSE, insertId |-> db.nextUserId,
     db |-> [db EXCEPT
               !.users = (db.nextUserId :>
                            [id |-> db.nextUserId, username |-> username,
                             email |-> email, password |-> hashed]) @@ db.users,
               !.nextUserId = db.nextUserId + 1]]

(* INSERT INTO users (username, email, password) VALUES (?, ?, ?) *)
InsertUser(db, username, email, hashed) ==
    IF ~db.up THEN [err |-> TRUE, insertId |-> 0, db |-> db] ELSE
    IF DuplicateEntry(db, 0, username, email)
    THEN [err |-> TRUE, insertId |-> 0, db |-> db]
    ELSE [err |-> FALSE, insertId |-> db.nextUserId,
          db |-> [db EXCEPT
                    !.users = (db.nextUserId :>
                                 [id |-> db.nextUserId, username |-> username,
                                  email |-> email, password |-> hashed]) @@ db.users,
                    !.nextUserId = db.nextUserId + 1]]

(* Mutant: the UPDATE also overwrites the password column. *)
UpdateUser_ResetsPassword(db, set, id) ==
    IF ~db.up THEN [err |-> TRUE, affectedRows |-> 0, db |-> db] ELSE
    IF DOMAIN set = {}
    THEN [err |-> TRUE, affectedRows |-> 0, db |-> db]
    ELSE IF id \notin DOMAIN db.users
    THEN [err |-> FALSE, affectedRows |-> 0, db |-> db]
    ELSE LET old == [db.users[id] EXCEPT !.password = bcryptHash("", "s1")]
             new == [c \in DOMAIN old |-> IF c \in DOMAIN set THEN set[c] ELSE old[c]]
         IN IF DuplicateEntry(db, id, new.username, new.email)
            THEN [err |-> TRUE, affectedRows |-> 0, db |-> db]
            ELSE [err |-> FALSE, affectedRows |-> 1,
                  db |-> [db EXCEPT !.users = [db.users EXCEPT ![id] = new]]]

(* UPDATE users SET <fields> WHERE id = ?  -- set: column -> new value.   *)
(* affectedRows counts the rows matched (mysql2 sets FOUND_ROWS).         *)
UpdateUser(db, set, id) ==
    IF ~db.up THEN [err |-> TRUE, affectedRows |-> 0, db |-> db] ELSE
    IF DOMAIN set = {}
    THEN [err |-> TRUE, affectedRows |-> 0, db |-> db]
    ELSE IF id \notin DOMAIN db.users
    THEN [err |-> FALSE, affectedRows |-> 0, db |-> db]
    ELSE LET old == db.users[id]
             new == [c \in DOMAIN old |-> IF c \in DOMAIN set THEN set[c] ELSE old[c]]
         IN IF DuplicateEntry(db, id, new.username, new.email)
            THEN [err |-> TRUE, affectedRows |-> 0, db |-> db]
            ELSE [err |-> FALSE, affectedRows |-> 1,
                  db |-> [db EXCEPT !.users = [db.users EXCEPT ![id] = new]]]

(* Mutant: the foreign key is ON DELETE CASCADE. *)
DeleteUser_Cascade(db, id) ==
    IF ~db.up THEN [err |-> TRUE, affectedRows |-> 0, db |-> db] ELSE
    IF id \notin DOMAIN db.users
    THEN [err |-> FALSE, affectedRows |-> 0, db |-> db]
    ELSE [err |-> FALSE, affectedRows |-> 1,
          db |-> [db EXCEPT
                    !.users = [j \in DOMAIN db.users \ {id} |-> db.users[j]],
                    !.articles = [a \in {x \in DOMAIN db.articles :
                                           db.articles[x].submitted_by # id}
                                  |-> db.articles[a]]]]

(* DELETE FROM users WHERE id = ? *)
DeleteUser(db, id) ==
    IF ~db.up THEN [err |-> TRUE, affectedRows |-> 0, db |-> db] ELSE
    IF id \notin DOMAIN db.users
    THEN [err |-> FALSE, affectedRows |-> 0, db |-> db]
    ELSE IF Referenced(db, id)
    THEN [err |-> TRUE, affectedRows |-> 0, db |-> db]
    ELSE [err |-> FALSE, affectedRows |-> 1,
          db |-> [db EXCEPT !.users = [j \in DOMAIN db.users \ {id} |-> db.users[j]]]]

----------------------------------------------------------------------------
(* Mutant: articles.submitted_by carries no foreign key. *)
InsertArticle_NoForeignKey(db, title, body, category, submitted_by, t) ==
    IF ~db.up THEN [err |-> TRUE, insertId |-> 0, db |-> db] ELSE
    [err |-> FALSE, insertId |-> db.nextArticleId,
     db |-> [db EXCEPT
               !.articles = (db.nextArticleId :>
                               [id |-> db.nextArticleId, title |-> title,
                                body |-> body, category |-> category,
                                submitted_by |-> submitted_by,
                                created_at |-> t]) @@ db.articles,
               !.nextArticleId = db.nextArticleId + 1]]

(* INSERT INTO articles (title, body, category, submitted_by) VALUES (?,?,?,?) *)
(* created_at is the column's default, the time of the insert.                 *)
InsertArticle(db, title, body, category, submitted_by, t) ==
    IF ~db.up THEN [err |-> TRUE, insertId |-> 0, db |-> db] ELSE
    IF submitted_by \notin DOMAIN db.users
    THEN [err |-> TRUE, insertId |-> 0, db |-> db]
    ELSE [err |-> FALSE, insertId |-> db.nextArticleId,
          db |-> [db EXCEPT
                    !.articles = (db.nextArticleId :>
                                    [id |-> db.nextArticleId, title |-> title,
                                     body |-> body, category |-> category,
                                     submitted_by |-> submitted_by,
                                     created_at |-> t]) @@ db.articles,
                    !.nextArticleId = db.nextArticleId + 1]]

(* ORDER BY articles.created_at DESC over the rows ids: every order of the *)
(* rows that is descending in created_at (ties are in no fixed order).     *)
OrderByCreatedAtDesc(db, ids) ==
    {s \in [1..Cardinality(ids) -> ids] :
        /\ \A i, j \in DOMAIN s : i # j => s[i] # s[j]
        /\ \A i, j \in DOMAIN s :
              i < j => db.articles[s[i]].created_at >= db.articles[s[j]].created_at}

----------------------------------------------------------------------------
(* utils/jwt and the middlewares *)

generateToken(id, t) == [sub |-> id, exp |-> t + TokenTTL, sig |-> "good"]

NoHeader == [kind |-> "none"]
Malformed == [kind |-> "malformed"]
Bearer(tok) == [kind |-> "bearer", tok |-> tok]

(* A token signed with another key, or tampered with. *)
Forged(id) == [sub |-> id, exp |-> MaxTime + TokenTTL + 1, sig |-> "bad"]

(* The Authorization headers a client can send: it holds a well-signed     *)
(* token only if generateToken made it.                                    *)
Headers == {NoHeader, Malformed, Bearer(Forged(1))}
             \cup {Bearer(tok) : tok \in issued}

Unauthorized == Reply(401, Obj([error |-> "Unauthorized"]))
BadRequest == Reply(400, Obj([error |-> "Validation failed"]))

(* Mutant: the gate looks the token's subject up in the users table. *)
authenticateToken_ChecksUser(h, t) ==
    IF h.kind # "bearer" THEN [ok |-> FALSE]
    ELSE IF h.tok.sig # "good" THEN [ok |-> FALSE]
    ELSE IF t >= h.tok.exp THEN [ok |-> FALSE]
    ELSE IF h.tok.sub \notin DOMAIN users THEN [ok |-> FALSE]
    ELSE [ok |-> TRUE, user |-> [id |-> h.tok.sub]]

(* authenticateToken: the identity attached to the request, or none *)
authenticateToken(h, t) ==
    IF h.kind # "bearer" THEN [ok |-> FALSE]
    ELSE IF h.tok.sig # "good" THEN [ok |-> FALSE]
    ELSE IF t >= h.tok.exp THEN [ok |-> FALSE]
    ELSE [ok |-> TRUE, user |-> [id |-> h.tok.sub]]

validateUserId(p) == Number(p) # NaN

validateRequiredUserData(b) == Truthy(b.username) /\ Truthy(b.email)

validatePartialUserData(b) == b.username # Undefined \/ b.email # Undefined

validateRegistration(b) == Truthy(b.username) /\ Truthy(b.email) /\ Truthy(b.password)

validateLogin(b) == Truthy(b.email) /\ Truthy(b.password)

----------------------------------------------------------------------------
(* Handlers.  Each yields the store after the request and the response.    *)

Out(db, status, json) == [db |-> db, res |-> Reply(status, json)]

UserResponse(id, username, email) == [id |-> id, username |-> username, email |-> email]

(* routes/auth.ts  POST /register: the existence query *)
AuthRegisterExisting(db, b) == SelectByEmailOrUsername(db, b.username, b.email)

(* routes/auth.ts  POST /register: after the existence query found nothing *)
AuthRegisterStore(db, b, salt) ==
    LET result == InsertUser(db, b.username, b.email, bcryptHash(b.password, salt))
    IN IF result.err
       THEN Out(db, 500, Obj([error |-> "Failed to register user"]))
       ELSE Out(result.db, 201,
                Obj([message |-> "User registered successfully",
                     user |-> UserResponse(result.insertId, b.username, b.email)]))

(* routes/auth.ts  POST /register *)
AuthRegisterHandler(db, b, salt) ==
    IF ~db.up THEN Out(db, 500, Obj([error |-> "Failed to register user"])) ELSE
    LET existingUsers == AuthRegisterExisting(db, b)
    IN IF existingUsers # {}
       THEN Out(db, 400, Obj([error |-> "User already exists with that email or username"]))
       ELSE AuthRegisterStore(db, b, salt)

AuthRegister(db, r, salt) ==
    IF ~validateRegistration(r.body) THEN [db |-> db, res |-> BadRequest]
    ELSE AuthRegisterHandler(db, r.body, salt)

(* Mutant: an unknown email gets its own answer. *)
AuthLoginHandler_UserNotFound(db, b, t) ==
    IF ~db.up THEN Out(db, 500, Obj([error |-> "Failed to log in"])) ELSE
    LET rows == SelectByEmail(db, b.email)
    IN IF rows = {}
       THEN Out(db, 401, Obj([error |-> "User not found"]))
       ELSE LET user == db.users[CHOOSE i \in rows : \A j \in rows : i <= j]
            IN IF ~bcryptCompare(b.password, user.password)
               THEN Out(db, 401, Obj([error |-> "Invalid email or password"]))
               ELSE Out(db, 200,
                        Obj([message |-> "Login successful",
                             user |-> UserResponse(user.id, user.username, user.email),
                             token |-> generateToken(user.id, t)]))

(* routes/auth.ts  POST /login *)
AuthLoginHandler(db, b, t) ==
    IF ~db.up THEN Out(db, 500, Obj([error |-> "Failed to log in"])) ELSE
    LET rows == SelectByEmail(db, b.email)
    IN IF rows = {}
       THEN Out(db, 401, Obj([error |-> "Invalid email or password"]))
       ELSE LET user == db.users[CHOOSE i \in rows : \A j \in rows : i <= j]
            IN IF ~bcryptCompare(b.password, user.password)
               THEN Out(db, 401, Obj([error |-> "Invalid email or password"]))
               ELSE Out(db, 200,
                        Obj([message |-> "Login successful",
                             user |-> UserResponse(user.id, user.username, user.email),
                             token |-> generateToken(user.id, t)]))

AuthLogin(db, r, t) ==
    IF ~validateLogin(r.body) THEN [db |-> db, res |-> BadRequest]
    ELSE AuthLoginHandler(db, r.body, t)

(* routes/users.ts  POST /register *)
UsersRegisterHandler(db, b, salt) ==
    IF ~db.up THEN Out(db, 500, Obj([error |-> "Failed to register user"])) ELSE
    LET existingUsers == SelectByEmailOrUsername(db, b.email, b.username)
    IN IF existingUsers # {}
       THEN Out(db, 400, Obj([error |-> "User already exists with that email or username"]))
       ELSE IF b.password = Undefined
       THEN Out(db, 500, Obj([error |-> "Failed to register user"]))
       ELSE LET result == InsertUser(db, b.username, b.email, bcryptHash(b.password, salt))
            IN IF result.err
               THEN Out(db, 500, Obj([error |-> "Failed to register user"]))
               ELSE Out(result.db, 201,
                        Obj([message |-> "User registered successfully",
                             user |-> UserResponse(result.insertId, b.username, b.email)]))

UsersRegister(db, r, salt) ==
    IF ~validateRequiredUserData(r.body) THEN [db |-> db, res |-> BadRequest]
    ELSE UsersRegisterHandler(db, r.body, salt)

----------------------------------------------------------------------------
(* Mutant: affectedRows is not looked at. *)
UsersPutHandler_NoNotFound(db, user, r) ==
    LET userId == Number(r.id)
        b == r.body
    IN IF user.id # userId
       THEN Out(db, 403, Obj([error |-> "Users can only update their own account"]))
       ELSE LET result == UpdateUser(db, [username |-> b.username, email |-> b.email], userId)
            IN IF result.err
               THEN Out(db, 500, Obj([message |-> "Internal server error"]))
               ELSE Out(result.db, 200, Obj(UserResponse(userId, b.username, b.email)))

(* routes/users.ts  PUT /:id *)
UsersPutHandler(db, user, r) ==
    LET userId == Number(r.id)
        b == r.body
    IN IF user.id # userId
       THEN Out(db, 403, Obj([error |-> "Users can only update their own account"]))
       ELSE LET result == UpdateUser(db, [username |-> b.username, email |-> b.email], userId)
            IN IF result.err
               THEN Out(db, 500, Obj([message |-> "Internal server error"]))
               ELSE IF result.affectedRows = 0
               THEN Out(db, 404, Obj([message |-> "User not found"]))
               ELSE Out(result.db, 200, Obj(UserResponse(userId, b.username, b.email)))

UsersPut(db, r, t) ==
    LET gate == authenticateToken(r.auth, t)
    IN IF ~gate.ok THEN [db |-> db, res |-> Unauthorized]
       ELSE IF ~validateUserId(r.id) THEN [db |-> db, res |-> BadRequest]
       ELSE IF ~validateRequiredUserData(r.body) THEN [db |-> db, res |-> BadRequest]
       ELSE UsersPutHandler(db, gate.user, r)

(* Mutant: both columns are written, as PUT does. *)
UsersPatchHandler_SetsBoth(db, user, r) ==
    LET userId == Number(r.id)
        b == r.body
    IN IF user.id # userId
       THEN Out(db, 403, Obj([error |-> "Users can only update their own account"]))
       ELSE LET result == UpdateUser(db, [username |-> b.username, email |-> b.email], userId)
            IN IF result.err
               THEN Out(db, 500, Obj([message |-> "Internal server error"]))
               ELSE IF result.affectedRows = 0
               THEN Out(db, 404, Obj([message |-> "User not found"]))
               ELSE Out(result.db, 200, Obj(result.db.users[userId]))

(* routes/users.ts  PATCH /:id: the SELECT after the UPDATE, and the answer. *)
(* users[0] of no rows is undefined, and res.json(undefined) sends 200     *)
(* with no body.                                                           *)
UsersPatchSelect(db, userId) ==
    IF ~db.up THEN Out(db, 500, Obj([message |-> "Internal server error"]))
    ELSE IF userId \in DOMAIN db.users THEN Out(db, 200, Obj(db.users[userId]))
    ELSE Out(db, 200, NoBody)

(* routes/users.ts  PATCH /:id *)
UsersPatchHandler(db, user, r) ==
    LET userId == Number(r.id)
        b == r.body
        fieldsToUpdate == {c \in {"username", "email"} : Truthy(b[c])}
    IN IF user.id # userId
       THEN Out(db, 403, Obj([error |-> "Users can only update their own account"]))
       ELSE LET result == UpdateUser(db, [c \in fieldsToUpdate |-> b[c]], userId)
            IN IF result.err
               THEN Out(db, 500, Obj([message |-> "Internal server error"]))
               ELSE IF result.affectedRows = 0
               THEN Out(db, 404, Obj([message |-> "User not found"]))
               ELSE UsersPatchSelect(result.db, userId)

UsersPatch(db, r, t) ==
    LET gate == authenticateToken(r.auth, t)
    IN IF ~gate.ok THEN [db |-> db, res |-> Unauthorized]
       ELSE IF ~validateUserId(r.id) THEN [db |-> db, res |-> BadRequest]
       ELSE IF ~validatePartialUserData(r.body) THEN [db |-> db, res |-> BadRequest]
       ELSE UsersPatchHandler(db, gate.user, r)

(* Mutant: the ownership check is missing. *)
UsersDeleteHandler_NoOwnerCheck(db, user, r) ==
    LET userId == Number(r.id)
        result == DeleteUser(db, userId)
    IN IF result.err
       THEN Out(db, 500, Obj([message |-> "Internal server error"]))
       ELSE IF result.affectedRows = 0
       THEN Out(db, 404, Obj([message |-> "User not found"]))
       ELSE Out(result.db, 204, NoBody)

(* Mutant: affectedRows is not looked at. *)
UsersDeleteHandler_Always204(db, user, r) ==
    LET userId == Number(r.id)
    IN IF user.id # userId
       THEN Out(db, 403, Obj([error |-> "Users can only update their own account"]))
       ELSE LET result == DeleteUser(db, userId)
            IN IF result.err
               THEN Out(db, 500, Obj([message |-> "Internal server error"]))
               ELSE Out(result.db, 204, NoBody)

(* routes/users.ts  DELETE /:id *)
UsersDeleteHandler(db, user, r) ==
    LET userId == Number(r.id)
    IN IF user.id # userId
       THEN Out(db, 403, Obj([error |-> "Users can only update their own account"]))
       ELSE LET result == DeleteUser(db, userId)
            IN IF result.err
               THEN Out(db, 500, Obj([message |-> "Internal server error"]))
               ELSE IF result.affectedRows = 0
               THEN Out(db, 404, Obj([message |-> "User not found"]))
               ELSE Out(result.db, 204, NoBody)

UsersDelete(db, r, t) ==
    LET gate == authenticateToken(r.auth, t)
    IN IF ~gate.ok THEN [db |-> db, res |-> Unauthorized]
       ELSE IF ~validateUserId(r.id) THEN [db |-> db, res |-> BadRequest]
       ELSE UsersDeleteHandler(db, gate.user, r)

(* Mutant: a submitted_by in the body is taken over the attached identity. *)
ArticlesPostHandler_TrustsBody(db, user, b, t) ==
    IF ~Truthy(b.title) \/ ~Truthy(b.body) \/ ~Truthy(b.category)
    THEN Out(db, 400, Obj([error |-> "Missing required fields"]))
    ELSE LET submitted_by == IF Truthy(b.submitted_by) THEN Number(b.submitted_by)
                             ELSE user.id
             result == InsertArticle(db, b.title, b.body, b.category, submitted_by, t)
         IN IF result.err
            THEN Out(db, 500, Obj([error |-> "Failed to create article"]))
            ELSE Out(result.db, 201,
                     Obj([message |-> "Article created",
                          article |-> [id |-> result.insertId, title |-> b.title,
                                       body |-> b.body, category |-> b.category,
                                       user_id |-> submitted_by]]))

(* routes/articles.ts  POST / *)
ArticlesPostHandler(db, user, b, t) ==
    IF ~Truthy(b.title) \/ ~Truthy(b.body) \/ ~Truthy(b.category)
    THEN Out(db, 400, Obj([error |-> "Missing required fields"]))
    ELSE LET submitted_by == user.id
             result == InsertArticle(db, b.title, b.body, b.category, submitted_by, t)
         IN IF result.err
            THEN Out(db, 500, Obj([error |-> "Failed to create article"]))
            ELSE Out(result.db, 201,
                     Obj([message |-> "Article created",
                          article |-> [id |-> result.insertId, title |-> b.title,
                                       body |-> b.body, category |-> b.category,
                                       user_id |-> submitted_by]]))

(* Mutant: the route is mounted without authenticateToken, so req.user is *)
(* undefined and reading its id throws inside the try.                    *)
ArticlesPost_NoGate(db, r, t) ==
    IF ~Truthy(r.body.title) \/ ~Truthy(r.body.body) \/ ~Truthy(r.body.category)
    THEN Out(db, 400, Obj([error |-> "Missing required fields"]))
    ELSE Out(db, 500, Obj([error |-> "Failed to create article"]))

ArticlesPost(db, r, t) ==
    LET gate == authenticateToken(r.auth, t)
    IN IF ~gate.ok THEN [db |-> db, res |-> Unauthorized]
       ELSE ArticlesPostHandler(db, gate.user, r.body, t)

----------------------------------------------------------------------------
(* The read routes: the responses each can send. *)

(* routes/articles.ts  GET / *)
ArticlesGet(db) ==
    LET ids == {a \in DOMAIN db.articles : db.articles[a].submitted_by \in DOMAIN db.users}
    IN IF ~db.up THEN {Reply(500, Obj([error |-> "Failed to fetch articles"]))} ELSE
       {Reply(200, Arr([i \in DOMAIN s |->
                          [title |-> db.articles[s[i]].title,
                           body |-> db.articles[s[i]].body,
                           category |-> db.articles[s[i]].category,
                           created_at |-> db.articles[s[i]].created_at]])) :
          s \in OrderByCreatedAtDesc(db, ids)}

(* Mutant: an id without articles is answered 404. *)
UsersArticles_NotFoundWhenNone(db, p) ==
    LET submitted_by == Number(p)
        ids == {a \in DOMAIN db.articles : db.articles[a].submitted_by = submitted_by}
    IN IF submitted_by = NaN
       THEN {Reply(400, Obj([error |-> "Invalid user ID"]))}
       ELSE IF ~db.up THEN {Reply(500, Obj([error |-> "Failed to fetch user article"]))}
       ELSE IF ids = {} THEN {Reply(404, Obj([error |-> "User not found"]))}
       ELSE {Reply(200, Arr([i \in DOMAIN s |->
                               [id |-> db.articles[s[i]].id,
                                title |-> db.articles[s[i]].title,
                                body |-> db.articles[s[i]].body,
                                category |-> db.articles[s[i]].category,
                                created_at |-> db.articles[s[i]].created_at]])) :
               s \in OrderByCreatedAtDesc(db, ids)}

(* routes/users.ts  GET /:id/articles *)
UsersArticles(db, p) ==
    LET submitted_by == Number(p)
        ids == {a \in DOMAIN db.articles : db.articles[a].submitted_by = submitted_by}
    IN IF submitted_by = NaN
       THEN {Reply(400, Obj([error |-> "Invalid user ID"]))}
       ELSE IF ~db.up THEN {Reply(500, Obj([error |-> "Failed to fetch user article"]))}
       ELSE {Reply(200, Arr([i \in DOMAIN s |->
                               [id |-> db.articles[s[i]].id,
                                title |-> db.articles[s[i]].title,
                                body |-> db.articles[s[i]].body,
                                category |-> db.articles[s[i]].category,
                                created_at |-> db.articles[s[i]].created_at]])) :
               s \in OrderByCreatedAtDesc(db, ids)}

(* No response has been sent. *)
NoResponse == Reply(0, NoBody)

(* What Express writes itself: an HTML page. *)
Html(page) == [t |-> "html", v |-> page]

(* An async handler without a try whose await rejected.  Express 4 drops   *)
(* the rejection and the request is never answered; Express 5 hands it to  *)
(* the default error handler, which answers 500 with the error's stack, or *)
(* with the bare status text when NODE_ENV is production.                  *)
Uncaught == {NoResponse, Reply(500, Html("stack")), Reply(500, Html("Internal Server Error"))}

(* routes/users.ts  GET /:id/posts-with-user.  Neither a check of the id   *)
(* nor a try: with Number(id) = NaN the statement binds NaN, and either    *)
(* matches no row or is refused by the driver and the await rejects.       *)
UsersPostsWithUser(db, p) ==
    LET submitted_by == Number(p)
        ids == {a \in DOMAIN db.articles :
                   /\ db.articles[a].submitted_by \in DOMAIN db.users
                   /\ db.articles[a].submitted_by = submitted_by}
        rows == {[i \in DOMAIN s |->
                    [id |-> db.articles[s[i]].id,
                     title |-> db.articles[s[i]].title,
                     body |-> db.articles[s[i]].body,
                     category |-> db.articles[s[i]].category,
                     created_at |-> db.articles[s[i]].created_at,
                     username |-> db.users[submitted_by].username,
                     email |-> db.users[submitted_by].email]] :
                 s \in {q \in [1..Cardinality(ids) -> ids] :
                          \A i, j \in DOMAIN q : i # j => q[i] # q[j]}}
    IN IF ~db.up THEN Uncaught
       ELSE IF submitted_by = NaN THEN {Reply(200, Arr(<<>>))} \cup Uncaught
       ELSE {Reply(200, Arr(x)) : x \in rows}

----------------------------------------------------------------------------------------------------------------------------------------------------------------------------------------------------
(* Requests *)

RegisterBodies == [username : Usernames \cup {Undefined}, email : Emails \cup {Undefined},
                   password : {"p", Undefined}]

LoginBodies == [email : Emails \cup {Undefined}, password : Passwords \cup {Undefined}]

PutBodies == [username : Usernames \cup {Undefined}, email : Emails \cup {Undefined}]

PatchBodies == [username : Usernames \cup {Undefined, ""},
                email : Emails \cup {Undefined, ""}]

(* A client may add fields the route does not read, such as submitted_by. *)
ArticleBodies == [title : Texts \cup {Undefined}, body : Texts \cup {Undefined},
                  category : Texts \cup {Undefined},
                  submitted_by : {ToString(i) : i \in UserIds} \cup {Undefined}]

----------------------------------------------------------------------------
Init ==
    /\ users = <<>>
    /\ nextUserId = 1
    /\ articles = <<>>
    /\ nextArticleId = 1
    /\ now = 0
    /\ issued = {}
    /\ deleted204 = {}
    /\ req = NoRequest
    /\ res = NoResponse
    /\ up = TRUE
    /\ inflight = {}

(* No exchange is open: the last response has been written out. *)
Idle == req = NoRequest

(* The request r was handled with outcome o. *)
Respond(r, o) ==
    /\ o.db.nextUserId <= MaxUsers + 1
    /\ o.db.nextArticleId <= MaxArticles + 1
    /\ users' = o.db.users
    /\ nextUserId' = o.db.nextUserId
    /\ articles' = o.db.articles
    /\ nextArticleId' = o.db.nextArticleId
    /\ req' = r
    /\ res' = o.res

PostAuthRegister ==
    /\ Idle
    /\ \E b \in RegisterBodies, salt \in Salts :
          LET r == [op |-> "POST /auth/register", body |-> b]
          IN Respond(r, AuthRegister(DB, r, salt))
    /\ UNCHANGED <<now, issued, deleted204, up, inflight>>

PostAuthLogin ==
    /\ Idle
    /\ \E b \in LoginBodies :
          LET r == [op |-> "POST /auth/login", body |-> b]
              o == AuthLogin(DB, r, now)
              tokens == IF o.res.status = 200 THEN issued \cup {o.res.json.v.token}
                        ELSE issued
          IN /\ Cardinality(tokens) <= MaxTokens
             /\ Respond(r, o)
             /\ issued' = tokens
    /\ UNCHANGED <<now, deleted204, up, inflight>>

PostUsersRegister ==
    /\ Idle
    /\ \E b \in RegisterBodies, salt \in Salts :
          LET r == [op |-> "POST /users/register", body |-> b]
          IN Respond(r, UsersRegister(DB, r, salt))
    /\ UNCHANGED <<now, issued, deleted204, up, inflight>>

PutUser ==
    /\ Idle
    /\ \E h \in Headers, p \in PathIds, b \in PutBodies :
          LET r == [op |-> "PUT /users/:id", auth |-> h, id |-> p, body |-> b]
          IN Respond(r, UsersPut(DB, r, now))
    /\ UNCHANGED <<now, issued, deleted204, up, inflight>>

PatchUser ==
    /\ Idle
    /\ \E h \in Headers, p \in PathIds, b \in PatchBodies :
          LET r == [op |-> "PATCH /users/:id", auth |-> h, id |-> p, body |-> b]
          IN Respond(r, UsersPatch(DB, r, now))
    /\ UNCHANGED <<now, issued, deleted204, up, inflight>>

DeleteUserById ==
    /\ Idle
    /\ \E h \in Headers, p \in PathIds :
          LET r == [op |-> "DELETE /users/:id", auth |-> h, id |-> p]
              o == UsersDelete(DB, r, now)
          IN /\ Respond(r, o)
             /\ deleted204' = IF o.res.status = 204 THEN deleted204 \cup {Number(p)}
                              ELSE deleted204
    /\ UNCHANGED <<now, issued, up, inflight>>

PostArticle ==
    /\ Idle
    /\ \E h \in Headers, b \in ArticleBodies :
          LET r == [op |-> "POST /articles", auth |-> h, body |-> b]
          IN Respond(r, ArticlesPost(DB, r, now))
    /\ UNCHANGED <<now, issued, deleted204, up, inflight>>

GetArticles ==
    /\ Idle
    /\ \E rp \in ArticlesGet(DB) :
          Respond([op |-> "GET /articles"], [db |-> DB, res |-> rp])
    /\ UNCHANGED <<now, issued, deleted204, up, inflight>>

GetUserArticles ==
    /\ Idle
    /\ \E p \in PathIds : \E rp \in UsersArticles(DB, p) :
          Respond([op |-> "GET /users/:id/articles", id |-> p], [db |-> DB, res |-> rp])
    /\ UNCHANGED <<now, issued, deleted204, up, inflight>>

GetPostsWithUser ==
    /\ Idle
    /\ \E p \in PathIds : \E rp \in UsersPostsWithUser(DB, p) :
          Respond([op |-> "GET /users/:id/posts-with-user", id |-> p],
                  [db |-> DB, res |-> rp])
    /\ UNCHANGED <<now, issued, deleted204, up, inflight>>

(* The exchange is over: the client has read the response. *)
Done ==
    /\ ~Idle
    /\ req' = NoRequest
    /\ res' = NoResponse
    /\ UNCHANGED <<users, nextUserId, articles, nextArticleId, now, issued, deleted204, up, inflight>>

(* Time passes between requests. *)
Tick ==
    /\ Idle
    /\ now < MaxTime
    /\ now' = now + 1
    /\ UNCHANGED <<users, nextUserId, articles, nextArticleId, issued, deleted204, req, res, up, inflight>>

(* The pool loses the database, and finds it again. *)
StoreDown ==
    /\ Idle
    /\ up
    /\ up' = FALSE
    /\ UNCHANGED <<users, nextUserId, articles, nextArticleId, now, issued, deleted204,
                   req, res, inflight>>

StoreUp ==
    /\ Idle
    /\ ~up
    /\ up' = TRUE
    /\ UNCHANGED <<users, nextUserId, articles, nextArticleId, now, issued, deleted204,
                   req, res, inflight>>

Next ==
    \/ PostAuthRegister
    \/ PostAuthLogin
    \/ PostUsersRegister
    \/ PutUser
    \/ PatchUser
    \/ DeleteUserById
    \/ PostArticle
    \/ GetArticles
    \/ GetUserArticles
    \/ GetPostsWithUser
    \/ Done
    \/ Tick

Spec == Init /\ [][Next]_vars

----------------------------------------------------------------------------
(* Requests handled concurrently.  A handler gives way at each await, so   *)
(* between two statements of one request the statements of others run.    *)

(* POST /auth/register up to its existence query. *)
AuthRegisterBegin ==
    /\ Idle
    /\ \E b \in RegisterBodies, salt \in Salts :
          LET r == [op |-> "POST /auth/register", body |-> b]
          IN IF validateRegistration(b) /\ AuthRegisterExisting(DB, b) = {}
             THEN /\ inflight' = inflight \cup {r}
                  /\ Cardinality(inflight') <= MaxInflight
                  /\ UNCHANGED <<users, nextUserId, articles, nextArticleId, req, res>>
             ELSE /\ Respond(r, AuthRegister(DB, r, salt))
                  /\ UNCHANGED inflight
    /\ UNCHANGED <<now, issued, deleted204, up>>

(* POST /auth/register from its INSERT on. *)
AuthRegisterEnd ==
    /\ Idle
    /\ \E r \in inflight, salt \in Salts :
          /\ r.op = "POST /auth/register"
          /\ Respond(r, AuthRegisterStore(DB, r.body, salt))
          /\ inflight' = inflight \ {r}
    /\ UNCHANGED <<now, issued, deleted204, up>>

(* PATCH /users/:id up to its UPDATE. *)
PatchBegin ==
    /\ Idle
    /\ \E h \in Headers, p \in PathIds, b \in PatchBodies :
          LET r == [op |-> "PATCH /users/:id", auth |-> h, id |-> p, body |-> b]
              o == UsersPatch(DB, r, now)
          IN IF o.res.status = 200
             THEN /\ inflight' = inflight \cup {r}
                  /\ Cardinality(inflight') <= MaxInflight
                  /\ users' = o.db.users
                  /\ UNCHANGED <<nextUserId, articles, nextArticleId, req, res>>
             ELSE /\ Respond(r, o)
                  /\ UNCHANGED inflight
    /\ UNCHANGED <<now, issued, deleted204, up>>

(* PATCH /users/:id from its SELECT on. *)
PatchEnd ==
    /\ Idle
    /\ \E r \in inflight :
          /\ r.op = "PATCH /users/:id"
          /\ Respond(r, UsersPatchSelect(DB, Number(r.id)))
          /\ inflight' = inflight \ {r}
    /\ UNCHANGED <<now, issued, deleted204, up>>

(* The routes on user accounts, with POST /auth/register taken statement   *)
(* by statement and the others in one piece.                               *)
NextRegisterRace ==
    \/ AuthRegisterBegin
    \/ AuthRegisterEnd
    \/ PostAuthRegister
    \/ PostAuthLogin
    \/ PutUser
    \/ PatchUser
    \/ DeleteUserById
    \/ Done

SpecRegisterRace == Init /\ [][NextRegisterRace]_vars

(* The routes on user accounts, with PATCH /users/:id taken statement by   *)
(* statement and the others in one piece.                                  *)
NextPatchRace ==
    \/ PatchBegin
    \/ PatchEnd
    \/ PostAuthRegister
    \/ PostAuthLogin
    \/ PutUser
    \/ PatchUser
    \/ DeleteUserById
    \/ Done

SpecPatchRace == Init /\ [][NextPatchRace]_vars

(* The same routes, with a database that can be out of reach. *)
NextStoreFailure ==
    \/ Next
    \/ StoreDown
    \/ StoreUp

SpecStoreFailure == Init /\ [][NextStoreFailure]_vars

----------------------------------------------------------------------------
(* Vocabulary of the properties *)

Store == <<users, nextUserId, articles, nextArticleId>>

ProtectedOps == {"PUT /users/:id", "PATCH /users/:id", "DELETE /users/:id", "POST /articles"}

UserMutations == {"PUT /users/:id", "PATCH /users/:id", "DELETE /users/:id"}

(* The header is missing or malformed, or its token is invalid or expired at t. *)
Rejectable(h, t) ==
    \/ h.kind = "none"
    \/ h.kind = "malformed"
    \/ h.kind = "bearer" /\ (h.tok.sig = "bad" \/ t >= h.tok.exp)

(* The header carries a token issued for user a that is valid at t. *)
ValidTokenOf(h, a, t) ==
    /\ h.kind = "bearer"
    /\ h.tok \in issued
    /\ h.tok.sub = a
    /\ t < h.tok.exp

(* The body is acceptable to the route's validation. *)
ValidBody(r) ==
    CASE r.op = "PUT /users/:id" -> Truthy(r.body.username) /\ Truthy(r.body.email)
      [] r.op = "PATCH /users/:id" -> Truthy(r.body.username) \/ Truthy(r.body.email)
      [] OTHER -> TRUE

StoredHashes == {users[i].password : i \in DOMAIN users}

HasPasswordHash(o) == "password" \in DOMAIN o /\ o.password \in StoredHashes

(* The JSON value carries a stored password hash. *)
CarriesHash(json) ==
    CASE json.t = "obj" ->
            \/ HasPasswordHash(json.v)
            \/ "user" \in DOMAIN json.v /\ HasPasswordHash(json.v.user)
      [] json.t = "arr" -> \E i \in DOMAIN json.v : HasPasswordHash(json.v[i])
      [] OTHER -> FALSE

----------------------------------------------------------------------------
(* C1: no response body of any endpoint contains a user's stored password  *)
(* hash.  Violated: PATCH /users/:id answers with the whole row.           *)
C1_NoHashInAnyResponse == ~CarriesHash(res.json)

(* C2: once a user holds email E, POST /auth/register with email E and a   *)
(* username no user holds is answered 400 and adds no user.  Violated: the *)
(* existence query binds [username, email] to "email = ? OR username = ?". *)
C2_DuplicateEmailIs400 ==
    [][(/\ req'.op = "POST /auth/register"
        /\ validateRegistration(req'.body)
        /\ \E i \in DOMAIN users : users[i].email = req'.body.email
        /\ \A i \in DOMAIN users : users[i].username # req'.body.username)
       => (res'.status = 400 /\ users' = users)]_vars

(* C3: a request to a bearer-protected route whose Authorization header is *)
(* missing or malformed, or whose token is invalid or expired, is answered *)
(* 401 and leaves the user and article stores unchanged.                   *)
C3_RejectedLeavesStores ==
    [][(req'.op \in ProtectedOps /\ Rejectable(req'.auth, now))
       => (res'.status = 401 /\ Store' = Store)]_vars

(* C3 witness: an expired, well-signed token was presented and refused. *)
C3_Witness ==
    /\ req.op \in ProtectedOps
    /\ req.auth.kind = "bearer"
    /\ req.auth.tok \in issued
    /\ now >= req.auth.tok.exp
    /\ res.status = 401
    /\ DOMAIN users # {}

(* C4: an otherwise valid PUT, PATCH or DELETE on /users/B with a token    *)
(* issued for A # B is answered 403 and leaves the user store unchanged;   *)
(* a user row changes or disappears only in a request whose token subject  *)
(* is that row's id.                                                       *)
C4_OwnerOnly ==
    [][/\ (/\ req'.op \in UserMutations
           /\ \E a \in UserIds : ValidTokenOf(req'.auth, a, now) /\ Number(req'.id) # a
           /\ Number(req'.id) # NaN
           /\ ValidBody(req'))
          => (res'.status = 403 /\ users' = users)
       /\ \A i \in DOMAIN users :
             (i \notin DOMAIN users' \/ users'[i] # users[i])
             => (/\ req'.op \in UserMutations
                 /\ req'.auth.kind = "bearer"
                 /\ req'.auth.tok.sub = i)]_vars

(* C4 witness: a valid token of one user was refused on another stored user. *)
C4_Witness ==
    /\ req.op \in UserMutations
    /\ req.auth.kind = "bearer"
    /\ req.auth.tok \in issued
    /\ now < req.auth.tok.exp
    /\ Number(req.id) \in DOMAIN users
    /\ req.auth.tok.sub \in DOMAIN users
    /\ Number(req.id) # req.auth.tok.sub
    /\ res.status = 403

(* C5: no two user rows share a username and no two share an email. *)
C5_UniqueUsernameAndEmail ==
    \A i, j \in DOMAIN users :
        i # j => (users[i].username # users[j].username /\ users[i].email # users[j].email)

(* C5 witness: two users are stored and a PUT that would have given one   *)
(* of them the other's username or email was refused by the store.        *)
C5_Witness ==
    /\ Cardinality(DOMAIN users) = 2
    /\ req.op = "PUT /users/:id"
    /\ ValidTokenOf(req.auth, Number(req.id), now)
    /\ \E j \in DOMAIN users \ {Number(req.id)} :
          users[j].username = req.body.username \/ users[j].email = req.body.email
    /\ res.status = 500

(* C6: a valid token issued for A, presented on PUT /users/A with a valid   *)
(* body after A's row was deleted, is answered 404 (not 403) and no user   *)
(* row is created.                                                        *)
C6_PutOnDeletedIs404 ==
    [][(/\ req'.op = "PUT /users/:id"
        /\ \E a \in deleted204 : ValidTokenOf(req'.auth, a, now) /\ Number(req'.id) = a
        /\ ValidBody(req'))
       => (res'.status = 404 /\ users' = users /\ nextUserId' = nextUserId)]_vars

(* C6 witness: the owner's still-valid token met a deleted row on PUT. *)
C6_Witness ==
    /\ req.op = "PUT /users/:id"
    /\ ValidTokenOf(req.auth, Number(req.id), now)
    /\ Number(req.id) \in deleted204
    /\ ValidBody(req)
    /\ res.status = 404

(* C7: a successful PATCH /users/A changes only the columns the body       *)
(* supplies: an absent username leaves the username, an absent email the   *)
(* email; the password hash, the id and every other row stay as they were. *)
C7_PatchFrame ==
    [][(req'.op = "PATCH /users/:id" /\ res'.status = 200)
       => LET a == Number(req'.id)
              b == req'.body
          IN /\ DOMAIN users' = DOMAIN users
             /\ a \in DOMAIN users
             /\ \A j \in DOMAIN users \ {a} : users'[j] = users[j]
             /\ users'[a].id = users[a].id
             /\ users'[a].password = users[a].password
             /\ users'[a].username = IF Truthy(b.username) THEN b.username
                                     ELSE users[a].username
             /\ users'[a].email = IF Truthy(b.email) THEN b.email
                                  ELSE users[a].email]_vars

(* C7 witness: a PATCH carrying only an email succeeded while another user *)
(* was stored.                                                            *)
C7_Witness ==
    /\ req.op = "PATCH /users/:id"
    /\ res.status = 200
    /\ req.body.username = Undefined
    /\ users[Number(req.id)].email = req.body.email
    /\ Cardinality(DOMAIN users) = 2

(* C8 as stated: once DELETE /users/A with A's token was answered 204,     *)
(* every later DELETE /users/A with that token is answered 404; at most    *)
(* one DELETE of an id is answered 204.  Violated: the token expires and   *)
(* the request is then answered 401.                                       *)
C8_LaterDeleteIs404 ==
    [][(req'.op = "DELETE /users/:id" /\ req'.auth.kind = "bearer"
          /\ req'.auth.tok \in issued /\ Number(req'.id) = req'.auth.tok.sub)
       => /\ Number(req'.id) \in deleted204 => res'.status = 404
          /\ res'.status = 204 => Number(req'.id) \notin deleted204]_vars

(* C8 amended: once DELETE /users/A with A's token was answered 204, every *)
(* later DELETE /users/A with that token is answered 404 while the token   *)
(* is unexpired and 401 once it has expired, never 204; at most one DELETE *)
(* of an id is answered 204.                                               *)
C8_LaterDeleteIs404Or401 ==
    [][req'.op = "DELETE /users/:id"
       => /\ (/\ req'.auth.kind = "bearer"
              /\ req'.auth.tok \in issued
              /\ Number(req'.id) = req'.auth.tok.sub
              /\ Number(req'.id) \in deleted204)
             => /\ res'.status = IF now < req'.auth.tok.exp THEN 404 ELSE 401
                /\ users' = users
          /\ res'.status = 204 => Number(req'.id) \notin deleted204]_vars

(* C8 witness: a second DELETE of a deleted id, with the same valid token, *)
(* was answered 404.                                                       *)
C8_Witness ==
    /\ req.op = "DELETE /users/:id"
    /\ ValidTokenOf(req.auth, Number(req.id), now)
    /\ Number(req.id) \in deleted204
    /\ res.status = 404

(* C9: in every store state, login with an existing email and a wrong      *)
(* password and login with an email no user holds get the same status,     *)
(* 401, and the same body.                                                 *)
C9_LoginNoOracle ==
    \A known, unknown \in Emails : \A wrong, any \in Passwords :
        (/\ \E i \in DOMAIN users :
                users[i].email = known /\ ~bcryptCompare(wrong, users[i].password)
         /\ \A i \in DOMAIN users : users[i].email # unknown)
        => LET r1 == [op |-> "POST /auth/login",
                      body |-> [email |-> known, password |-> wrong]]
               r2 == [op |-> "POST /auth/login",
                      body |-> [email |-> unknown, password |-> any]]
           IN /\ AuthLogin(DB, r1, now).res.status = 401
              /\ AuthLogin(DB, r1, now).res = AuthLogin(DB, r2, now).res

(* C9 witness: a login with a stored email and a wrong password was        *)
(* refused while some email is held by no user.                            *)
C9_Witness ==
    /\ req.op = "POST /auth/login"
    /\ res.status = 401
    /\ \E i \in DOMAIN users :
          users[i].email = req.body.email /\ req.body.password \in Passwords
            /\ ~bcryptCompare(req.body.password, users[i].password)
    /\ \E e \in Emails : \A i \in DOMAIN users : users[i].email # e

(* C10: POST /auth/register with non-empty username, email and password    *)
(* that no stored user holds is answered 201 with a body holding id,       *)
(* username and email and no password.  Violated: the swapped existence    *)
(* query answers 400 when the new username is another user's email.        *)
C10_FreshRegisterIs201 ==
    [][(/\ req'.op = "POST /auth/register"
        /\ validateRegistration(req'.body)
        /\ \A i \in DOMAIN users :
              users[i].username # req'.body.username /\ users[i].email # req'.body.email)
       => (/\ res'.status = 201
           /\ DOMAIN res'.json.v.user = {"id", "username", "email"})]_vars

(* C11: every article POST /articles creates has submitted_by equal to the *)
(* subject of the presented token, whatever the body holds, and the answer *)
(* names that same id; no other request creates or alters an article.      *)
C11_StampedWithTokenSubject ==
    [][articles' # articles
       => /\ req'.op = "POST /articles"
          /\ req'.auth.kind = "bearer"
          /\ res'.status = 201
          /\ \A a \in DOMAIN articles : a \in DOMAIN articles' /\ articles'[a] = articles[a]
          /\ \A a \in DOMAIN articles' \ DOMAIN articles :
                /\ articles'[a].submitted_by = req'.auth.tok.sub
                /\ res'.json.v.article.user_id = req'.auth.tok.sub]_vars

(* C11 witness: an article was created by a request whose body named       *)
(* another stored user as submitted_by.                                    *)
C11_Witness ==
    /\ req.op = "POST /articles"
    /\ res.status = 201
    /\ Truthy(req.body.submitted_by)
    /\ Number(req.body.submitted_by) # req.auth.tok.sub
    /\ Number(req.body.submitted_by) \in DOMAIN users
    /\ articles[res.json.v.article.id].submitted_by = req.auth.tok.sub

(* C12: in every state each stored article's submitted_by is the id of a   *)
(* stored user.                                                            *)
C12_SubmittedByExists ==
    \A a \in DOMAIN articles : articles[a].submitted_by \in DOMAIN users

(* C12 witness: a still-valid token of a deleted user was presented on     *)
(* POST /articles with a complete body and no article was stored.          *)
C12_Witness ==
    /\ req.op = "POST /articles"
    /\ ValidTokenOf(req.auth, req.auth.tok.sub, now)
    /\ req.auth.tok.sub \in deleted204
    /\ Truthy(req.body.title) /\ Truthy(req.body.body) /\ Truthy(req.body.category)
    /\ res.status = 500
    /\ DOMAIN users # {}

(* The body is one of the handlers' own messages. *)
GenericBody(json) == json.t = "obj" /\ DOMAIN json.v \subseteq {"error", "message"}

(* C13: while the database is out of reach, every request is answered,     *)
(* with 500 and a generic message unless it was refused (400, 401, 403)    *)
(* before its first statement; no internal detail is sent.  Violated:      *)
(* GET /users/:id/posts-with-user has no try around its query.             *)
C13_StoreFailureIs500 ==
    [][(~up /\ req' # NoRequest)
       => (res'.status \in {400, 401, 403, 500} /\ GenericBody(res'.json))]_vars

PathIdReads == {"GET /users/:id/articles", "GET /users/:id/posts-with-user"}

(* C14: on GET /users/:id/articles and GET /users/:id/posts-with-user a    *)
(* non-numeric id is answered 400.  Violated: posts-with-user binds        *)
(* Number(id) to its query without looking at it.                          *)
C14_NonNumericIdIs400 ==
    [][(req'.op \in PathIdReads /\ Number(req'.id) = NaN) => res'.status = 400]_vars

(* C15: GET /users/:id/articles with a numeric id is answered 200 with     *)
(* exactly the stored articles whose submitted_by is that id, each once;   *)
(* with none, also when no user has the id, the list is empty and the      *)
(* status is still 200; the stores are left as they were.                  *)
C15_ArticlesOfUser ==
    [][(req'.op = "GET /users/:id/articles" /\ Number(req'.id) # NaN)
       => LET rows == res'.json.v
              ids == {a \in DOMAIN articles : articles[a].submitted_by = Number(req'.id)}
          IN /\ res'.status = 200
             /\ res'.json.t = "arr"
             /\ {rows[i].id : i \in DOMAIN rows} = ids
             /\ Len(rows) = Cardinality(ids)
             /\ \A i \in DOMAIN rows :
                   /\ rows[i].title = articles[rows[i].id].title
                   /\ rows[i].body = articles[rows[i].id].body
                   /\ rows[i].category = articles[rows[i].id].category
             /\ Store' = Store]_vars

(* C15 witness: an id no user holds was asked for while another user's     *)
(* article is stored, and the answer was 200 with an empty list.           *)
C15_Witness ==
    /\ req.op = "GET /users/:id/articles"
    /\ Number(req.id) # NaN
    /\ Number(req.id) \notin DOMAIN users
    /\ DOMAIN articles # {}
    /\ res = Reply(200, Arr(<<>>))

(* C16: a token a successful login of A issued carries A's id, and on      *)
(* every bearer-protected request before its expiry the gate accepts it    *)
(* with that identity: the answer is not 401, whatever happened to A's     *)
(* row since.                                                              *)
C16_TokenValidUntilExpiry ==
    [][/\ (req'.op = "POST /auth/login" /\ res'.status = 200)
          => /\ res'.json.v.token.sub = res'.json.v.user.id
             /\ res'.json.v.token.sub \in DOMAIN users
             /\ users[res'.json.v.token.sub].email = req'.body.email
       /\ (/\ req'.op \in ProtectedOps
           /\ req'.auth.kind = "bearer"
           /\ req'.auth.tok \in issued
           /\ now < req'.auth.tok.exp)
          => /\ res'.status # 401
             /\ authenticateToken(req'.auth, now)
                   = [ok |-> TRUE, user |-> [id |-> req'.auth.tok.sub]]]_vars

(* C16 witness: after A's row was deleted, A's unexpired token passed the  *)
(* gate on PATCH /users/A, which answered 404.                             *)
C16_Witness ==
    /\ req.op = "PATCH /users/:id"
    /\ ValidTokenOf(req.auth, Number(req.id), now)
    /\ Number(req.id) \in deleted204
    /\ Number(req.id) \notin DOMAIN users
    /\ res.status = 404

(* C19: DELETE /users/A with A's valid token while an article has          *)
(* submitted_by = A is answered 500, and the users and the articles stay   *)
(* as they were.                                                           *)
C19_DeleteOfAuthorIs500 ==
    [][(/\ req'.op = "DELETE /users/:id"
        /\ ValidTokenOf(req'.auth, Number(req'.id), now)
        /\ Referenced(DB, Number(req'.id)))
       => (res'.status = 500 /\ users' = users /\ articles' = articles)]_vars

(* C19 witness: the author of a stored article asked for the deletion of   *)
(* their own account and is still stored.                                  *)
C19_Witness ==
    /\ req.op = "DELETE /users/:id"
    /\ ValidTokenOf(req.auth, Number(req.id), now)
    /\ Referenced(DB, Number(req.id))
    /\ Number(req.id) \in DOMAIN users
    /\ res.status = 500

(* C20: a successful PUT or PATCH on /users/A leaves A's password hash as  *)
(* it was, and a login with A's email after the request and the password   *)
(* the hash was made from is answered 200.                                 *)
C20_PasswordKept ==
    [][(req'.op \in {"PUT /users/:id", "PATCH /users/:id"} /\ res'.status = 200)
       => LET a == Number(req'.id)
              login == [op |-> "POST /auth/login",
                        body |-> [email |-> users'[a].email,
                                  password |-> users[a].password.of]]
          IN /\ users'[a].password = users[a].password
             /\ AuthLogin(DB', login, now').res.status = 200
             /\ AuthLogin(DB', login, now').res.json.v.user.id = a]_vars

(* C20 witness: a PUT gave A a new email and A's password still logs in.   *)
C20_Witness ==
    /\ req.op = "PUT /users/:id"
    /\ res.status = 200
    /\ Cardinality(DOMAIN users) = 2
    /\ users[Number(req.id)].email = req.body.email
    /\ users[Number(req.id)].username = "bob@x.io"
    /\ AuthLogin(DB, [op |-> "POST /auth/login",
                      body |-> [email |-> req.body.email, password |-> "p"]],
                 now).res.status = 200

(* C17: whenever PATCH /users/A is answered 200, the body is A's row with  *)
(* every supplied field equal to the supplied value.  Violated when a PUT  *)
(* or DELETE of A runs between the UPDATE and the SELECT of the PATCH.     *)
C17_PatchAnswersSupplied ==
    [][(req'.op = "PATCH /users/:id" /\ res'.status = 200)
       => /\ res'.json.t = "obj"
          /\ res'.json.v.id = Number(req'.id)
          /\ \A c \in {"username", "email"} :
                Truthy(req'.body[c]) => res'.json.v[c] = req'.body[c]]_vars

(* C18: a POST /auth/register is answered 201 only if, at its INSERT, no   *)
(* user held its email or its username, and it adds exactly the row it     *)
(* names; after every step no two users share an email or a username.  Of  *)
(* two concurrent registrations with the same email (username) the second  *)
(* to insert is therefore not answered 201.                                *)
C18_OneRegistrationWins ==
    [][/\ (req'.op = "POST /auth/register" /\ res'.status = 201)
          => LET b == req'.body
                 id == res'.json.v.user.id
             IN /\ \A i \in DOMAIN users :
                      users[i].email # b.email /\ users[i].username # b.username
                /\ DOMAIN users' = DOMAIN users \cup {id}
                /\ id \notin DOMAIN users
                /\ users'[id].email = b.email
                /\ users'[id].username = b.username
       /\ \A i, j \in DOMAIN users' :
             i # j => (/\ users'[i].username # users'[j].username
                       /\ users'[i].email # users'[j].email)]_vars

(* C18 witness: a registration was answered 201 while another one with the *)
(* same email, past its existence query, waits for its INSERT.             *)
C18_Witness ==
    /\ req.op = "POST /auth/register"
    /\ res.status = 201
    /\ \E r \in inflight :
          /\ r.op = "POST /auth/register"
          /\ r.body.email = req.body.email

====
